---- MODULE Spec2Model ----
(***************************************************************************)
(* MindMapCreator (src/mindmap.js): the editor's state, its event handlers *)
(* and its layout functions.                                               *)
(*                                                                         *)
(* Conventions                                                             *)
(*  - a node id `node_<n>` is the natural n, a connection id               *)
(*    `connection_<n>` is the natural n; Null (0) is JavaScript's null.    *)
(*  - a text is a sequence of one-character strings.                       *)
(*  - a node size is kept in tenths (84 is 840, 95.2 is 952), so that the  *)
(*    circle factor 1.4 stays exact.                                       *)
(*  - zoom is kept in thousandths (ZoomUnit is zoom = 1), every product    *)
(*    rounded to the nearest thousandth.                                   *)
(*  - a Map or Set of the program is a function or a set: the insertion    *)
(*    order is not modelled.                                               *)
(***************************************************************************)
EXTENDS Integers, Sequences, FiniteSets, TLC

VARIABLES
    nodes,                \* this.nodes: id -> node record
    connections,          \* this.connections: id -> [start, end]
    selectedNodes,        \* this.selectedNodes
    selectedConnections,  \* this.selectedConnections
    currentTool,          \* this.currentTool
    isConnecting,         \* this.isConnecting
    connectionStart,      \* this.connectionStart (Null or a node id)
    tempConnection,       \* this.tempConnection: TRUE when a preview line exists
    isDragging,           \* this.isDragging
    dragOffset,           \* this.dragOffset
    nodeCounter,          \* this.nodeCounter
    connectionCounter,    \* this.connectionCounter
    zoom,                 \* this.zoom, in thousandths
    pan,                  \* this.pan
    currentEditingNode,   \* this.currentEditingNode (Null or a node id)
    currentEditingNodes,  \* this.currentEditingNodes (a set of ids; {} is null)
    selectedShape,        \* this.selectedShape
    nodeModalShown,       \* #nodeEditModal carries the class 'show'
    openedAs,             \* history: how the open edit dialog was opened
    savedMaps,            \* localStorage['mindmaps']: title -> snapshot
    nodeElems,            \* ids of the .mindmap-node elements in #nodesLayer
    connElems,            \* ids of the .connection-line elements
    welcomePending,       \* the 100 ms timer of init() has not fired yet
    savedGraph,           \* history: title -> the graph when it was last saved
    lastOp,               \* history: the kind of handler that ran last
    fnArgs,               \* inputs of the layout function under check
    fnOut                 \* its result

vars == <<nodes, connections, selectedNodes, selectedConnections, currentTool,
          isConnecting, connectionStart, tempConnection, isDragging, dragOffset,
          nodeCounter, connectionCounter, zoom, pan, currentEditingNode,
          currentEditingNodes, selectedShape, nodeModalShown, openedAs, savedMaps,
          nodeElems, connElems, welcomePending, savedGraph, lastOp, fnArgs, fnOut>>

graphVars == <<nodes, connections, nodeCounter, connectionCounter, nodeElems, connElems>>
selVars == <<selectedNodes, selectedConnections>>
toolVars == <<currentTool, isConnecting, connectionStart, tempConnection>>
dragVars == <<isDragging, dragOffset>>
viewVars == <<zoom, pan>>
editVars == <<currentEditingNode, currentEditingNodes, selectedShape, nodeModalShown,
              openedAs>>
storeVars == <<savedMaps, savedGraph>>
fnVars == <<fnArgs, fnOut>>

----------------------------------------------------------------------------
(* Bounds of the model *)

MaxNodes == 3
MaxConns == 2
MaxIds == 5
MaxSizeLen == 10
MaxWrapLen == 5

----------------------------------------------------------------------------
(* Values *)

Null == 0
ZoomUnit == 1000

Shapes == {"circle", "square", "rectangle"}
Tools == {"select", "node", "connection"}

DefaultColor == "#4A90E2"
DefaultTextColor == "#FFFFFF"

Max2(a, b) == IF a >= b THEN a ELSE b
Min2(a, b) == IF a <= b THEN a ELSE b

\* all sequences over S of length at most n
SeqsUpTo(S, n) == UNION {[1..k -> S] : k \in 0..n}

----------------------------------------------------------------------------
(* Geometry / layout *)

RECURSIVE SplitAcc(_, _, _, _)
SplitAcc(text, i, cur, acc) ==
    IF i > Len(text) THEN Append(acc, cur)
    ELSE IF text[i] = " " THEN SplitAcc(text, i + 1, <<>>, Append(acc, cur))
    ELSE SplitAcc(text, i + 1, Append(cur, text[i]), acc)

\* text.split(' '): one word per space-separated field, empty fields included
Split(text) == SplitAcc(text, 1, <<>>, <<>>)

RECURSIVE MaxLenOf(_)
MaxLenOf(words) ==
    IF words = <<>> THEN 0
    ELSE Max2(Len(Head(words)), MaxLenOf(Tail(words)))

\* the size computation of createNode, in tenths
computeNodeSize(text, shape) ==
    LET words == Split(text)
        longestWord == MaxLenOf(words)
        totalWords == Len(words)
        baseSize == Max2(60, longestWord * 8 + totalWords * 4)
    IN IF shape = "circle" THEN baseSize * 14 ELSE baseSize * 10

\* maxCharsPerLine of renderWrappedText; size in tenths.
\* fontSize = clamp(size/3, 10, 16) is f30/30 with f30 = clamp(size, 300, 480);
\* maxWidth = size * k with k = 1.44, 0.9, 0.7; the result is
\* floor(maxWidth / (fontSize * 0.5)) = floor(6 * size * k / f30).
maxCharsPerLine(size, shape) ==
    LET f30 == Max2(300, Min2(480, size))
        kNum == CASE shape = "rectangle" -> 144
                  [] shape = "square" -> 90
                  [] OTHER -> 70
    IN (6 * size * kNum) \div (100 * f30)

\* a faulty wrap: a word that does not fit is put on the line all the same
RECURSIVE WrapLoopJoining(_, _, _, _)
WrapLoopJoining(words, limit, currentLine, lines) ==
    IF words = <<>>
    THEN IF currentLine # <<>> THEN Append(lines, currentLine) ELSE lines
    ELSE LET word == Head(words)
             testLine == IF currentLine # <<>>
                         THEN currentLine \o <<" ">> \o word
                         ELSE word
         IN IF Len(testLine) <= limit
            THEN WrapLoopJoining(Tail(words), limit, testLine, lines)
            ELSE IF currentLine # <<>>
                 THEN WrapLoopJoining(Tail(words), limit, <<>>,
                                      Append(lines, testLine))
                 ELSE WrapLoopJoining(Tail(words), limit, <<>>,
                                      Append(lines, word))

\* a faulty wrap: a word longer than the line is cut to the line's length
RECURSIVE WrapLoopTruncating(_, _, _, _)
WrapLoopTruncating(words, limit, currentLine, lines) ==
    IF words = <<>>
    THEN IF currentLine # <<>> THEN Append(lines, currentLine) ELSE lines
    ELSE LET word == Head(words)
             testLine == IF currentLine # <<>>
                         THEN currentLine \o <<" ">> \o word
                         ELSE word
         IN IF Len(testLine) <= limit
            THEN WrapLoopTruncating(Tail(words), limit, testLine, lines)
            ELSE IF currentLine # <<>>
                 THEN WrapLoopTruncating(Tail(words), limit, word,
                                         Append(lines, currentLine))
                 ELSE WrapLoopTruncating(Tail(words), limit, <<>>,
                                         Append(lines, SubSeq(word, 1, limit)))

RECURSIVE WrapLoop(_, _, _, _)
WrapLoop(words, limit, currentLine, lines) ==
    IF words = <<>>
    THEN IF currentLine # <<>> THEN Append(lines, currentLine) ELSE lines
    ELSE LET word == Head(words)
             testLine == IF currentLine # <<>>
                         THEN currentLine \o <<" ">> \o word
                         ELSE word
         IN IF Len(testLine) <= limit
            THEN WrapLoop(Tail(words), limit, testLine, lines)
            ELSE IF currentLine # <<>>
                 THEN WrapLoop(Tail(words), limit, word, Append(lines, currentLine))
                 ELSE WrapLoop(Tail(words), limit, <<>>, Append(lines, word))

\* the lines renderWrappedText puts into the text element
renderWrappedText(text, size, shape) ==
    WrapLoop(Split(text), maxCharsPerLine(size, shape), <<>>, <<>>)

----------------------------------------------------------------------------
(* Maps *)

MapSet(m, k, v) == [i \in DOMAIN m \cup {k} |-> IF i = k THEN v ELSE m[i]]
MapDel(m, k) == [i \in DOMAIN m \ {k} |-> m[i]]
EmptyMap == [i \in {} |-> 0]

\* String.prototype.trim: leading and trailing spaces removed
RECURSIVE TrimLeft(_)
TrimLeft(text) ==
    IF text # <<>> /\ Head(text) = " " THEN TrimLeft(Tail(text)) ELSE text

RECURSIVE TrimRight(_)
TrimRight(text) ==
    IF text # <<>> /\ text[Len(text)] = " "
    THEN TrimRight(SubSeq(text, 1, Len(text) - 1))
    ELSE text

Trim(text) == TrimRight(TrimLeft(text))

----------------------------------------------------------------------------
(* Inputs *)

WelcomeText == <<"W","e","l","c","o","m","e"," ","t","o"," ","M","i","n","d","M","a","p","!">>
NewNodeText == <<"N","e","w"," ","N","o","d","e">>

\* canvas.clientWidth / 2, canvas.clientHeight / 2 of an 800 x 600 canvas
WelcomePoint == [x |-> 400, y |-> 300]
\* screen points of pointer events, relative to the canvas
ScreenPoints == {[x |-> 100, y |-> 100]}

Colors == {DefaultColor, "#FF0000"}
TextColors == {DefaultTextColor, "#000000"}
\* what the user may leave in #nodeText
EditTexts == {<<" ">>, <<"H","i">>}
\* what the user may leave in #saveFileName
FileNames == {<<" ">>, <<"m">>}
\* the .saved-file-item the user selected (NoFile: none)
NoFile == <<"?">>
\* key events: the key and the tag of the element that has the focus
KeyEvents == {<<"Delete", "BODY">>, <<"Backspace", "BODY">>, <<"Escape", "BODY">>,
              <<"Delete", "INPUT">>, <<"Escape", "TEXTAREA">>}

----------------------------------------------------------------------------
(* Graph operations. g is [nodes, connections, nodeCounter,                *)
(* connectionCounter, nodeElems, connElems].                               *)

Graph == [nodes |-> nodes, connections |-> connections,
          nodeCounter |-> nodeCounter, connectionCounter |-> connectionCounter,
          nodeElems |-> nodeElems, connElems |-> connElems]

SetGraph(g) ==
    /\ nodes' = g.nodes
    /\ connections' = g.connections
    /\ nodeCounter' = g.nodeCounter
    /\ connectionCounter' = g.connectionCounter
    /\ nodeElems' = g.nodeElems
    /\ connElems' = g.connElems

\* screen point to model point: (x / zoom) - pan
screenToModel(p, z, pn) ==
    [x |-> (p.x * ZoomUnit) \div z - pn.x, y |-> (p.y * ZoomUnit) \div z - pn.y]

createNode(g, pos, text, color, textColor, shape) ==
    LET nodeId == g.nodeCounter + 1
        node == [x |-> pos.x, y |-> pos.y, text |-> text, color |-> color,
                 textColor |-> textColor, shape |-> shape,
                 size |-> computeNodeSize(text, shape)]
    IN [g EXCEPT !.nodeCounter = nodeId,
                 !.nodes = MapSet(@, nodeId, node),
                 !.nodeElems = @ \cup {nodeId}]

\* a faulty createConnection: the start id is stored as the end as well
createConnectionLooping(g, startNodeId, endNodeId) ==
    LET connectionId == g.connectionCounter + 1
    IN [g EXCEPT !.connectionCounter = connectionId,
                 !.connections = MapSet(@, connectionId,
                                        [start |-> startNodeId, end |-> startNodeId]),
                 !.connElems = IF startNodeId \in DOMAIN g.nodes
                               THEN @ \cup {connectionId} ELSE @]

\* renderConnection draws the line only when both end nodes exist
createConnection(g, startNodeId, endNodeId) ==
    LET connectionId == g.connectionCounter + 1
        drawn == startNodeId \in DOMAIN g.nodes /\ endNodeId \in DOMAIN g.nodes
    IN [g EXCEPT !.connectionCounter = connectionId,
                 !.connections = MapSet(@, connectionId,
                                        [start |-> startNodeId, end |-> endNodeId]),
                 !.connElems = IF drawn THEN @ \cup {connectionId} ELSE @]

deleteConnection(g, connectionId) ==
    [g EXCEPT !.connections = MapDel(@, connectionId),
              !.connElems = @ \ {connectionId}]

RECURSIVE deleteConnections(_, _)
deleteConnections(g, ids) ==
    IF ids = {} THEN g
    ELSE LET c == CHOOSE c \in ids : TRUE
         IN deleteConnections(deleteConnection(g, c), ids \ {c})

deleteNode(g, nodeId) ==
    LET connectionsToDelete ==
            {c \in DOMAIN g.connections :
                g.connections[c].start = nodeId \/ g.connections[c].end = nodeId}
        h == deleteConnections(g, connectionsToDelete)
    IN [h EXCEPT !.nodes = MapDel(@, nodeId), !.nodeElems = @ \ {nodeId}]

RECURSIVE deleteNodes(_, _)
deleteNodes(g, ids) ==
    IF ids = {} THEN g
    ELSE LET n == CHOOSE n \in ids : TRUE
         IN deleteNodes(deleteNode(g, n), ids \ {n})

\* a faulty deleteSelected: the selected connections are kept
deleteSelectedNodesOnly(g, selNodes, selConns) ==
    deleteNodes(g, selNodes)

\* deleteSelected, the graph part: selected connections, then selected nodes
deleteSelected(g, selNodes, selConns) ==
    deleteNodes(deleteConnections(g, selConns), selNodes)

\* a faulty clearAll: the counters are kept
clearAllKeepingCounters(g) ==
    [nodes |-> EmptyMap, connections |-> EmptyMap, nodeCounter |-> g.nodeCounter,
     connectionCounter |-> g.connectionCounter, nodeElems |-> {}, connElems |-> {}]

\* clearAll after the confirmation
clearAll(g) ==
    [nodes |-> EmptyMap, connections |-> EmptyMap, nodeCounter |-> 0,
     connectionCounter |-> 0, nodeElems |-> {}, connElems |-> {}]

----------------------------------------------------------------------------
(* Selection *)

clearSelection ==
    /\ selectedNodes' = {}
    /\ selectedConnections' = {}

\* a faulty selectNode: the selection is not cleared first
selectNodeKeepingOthers(nodeId) ==
    /\ selectedNodes' = selectedNodes \cup {nodeId}
    /\ UNCHANGED selectedConnections

selectNode(nodeId) ==
    /\ selectedNodes' = {nodeId}
    /\ selectedConnections' = {}

\* a faulty toggle: the id is added and never removed
toggledAddingOnly(sel, nodeId) == sel \cup {nodeId}

\* selectedNodes after toggleNodeSelection's delete or add
toggled(sel, nodeId) ==
    IF nodeId \in sel THEN sel \ {nodeId} ELSE sel \cup {nodeId}

toggleNodeSelection(nodeId) ==
    /\ selectedNodes' = toggled(selectedNodes, nodeId)
    /\ UNCHANGED selectedConnections

selectConnection(connectionId) ==
    /\ selectedNodes' = {}
    /\ selectedConnections' = {connectionId}

----------------------------------------------------------------------------
(* Tools and connections *)

\* a faulty setTool: the preview line is kept
setToolKeepingPreview(tool) ==
    /\ currentTool' = tool
    /\ isConnecting' = FALSE
    /\ connectionStart' = Null
    /\ UNCHANGED tempConnection

setTool(tool) ==
    /\ currentTool' = tool
    /\ isConnecting' = FALSE
    /\ connectionStart' = Null
    /\ tempConnection' = FALSE

startConnection(nodeId) ==
    /\ isConnecting' = TRUE
    /\ connectionStart' = nodeId
    /\ selectNode(nodeId)
    /\ UNCHANGED <<currentTool, tempConnection, graphVars>>

\* a faulty completeConnection: connectionStart is kept
completeConnectionKeepingStart(nodeId) ==
    /\ IF connectionStart # Null /\ connectionStart # nodeId
       THEN /\ connectionCounter < MaxConns
            /\ nodeCounter + connectionCounter < MaxIds
            /\ SetGraph(createConnection(Graph, connectionStart, nodeId))
       ELSE UNCHANGED graphVars
    /\ isConnecting' = FALSE
    /\ tempConnection' = FALSE
    /\ UNCHANGED <<currentTool, connectionStart, selVars>>

\* a faulty completeConnection: the preview line is kept
completeConnectionKeepingPreview(nodeId) ==
    /\ IF connectionStart # Null /\ connectionStart # nodeId
       THEN /\ connectionCounter < MaxConns
            /\ nodeCounter + connectionCounter < MaxIds
            /\ SetGraph(createConnection(Graph, connectionStart, nodeId))
       ELSE UNCHANGED graphVars
    /\ isConnecting' = FALSE
    /\ connectionStart' = Null
    /\ UNCHANGED <<currentTool, tempConnection, selVars>>

completeConnection(nodeId) ==
    /\ IF connectionStart # Null /\ connectionStart # nodeId
       THEN /\ connectionCounter < MaxConns
            /\ nodeCounter + connectionCounter < MaxIds
            /\ SetGraph(createConnection(Graph, connectionStart, nodeId))
       ELSE UNCHANGED graphVars
    /\ isConnecting' = FALSE
    /\ connectionStart' = Null
    /\ tempConnection' = FALSE
    /\ UNCHANGED <<currentTool, selVars>>

\* the pointer reaches the canvas and the toolbar only while the edit dialog,
\* whose backdrop covers the page, is closed
PointerFree == ~nodeModalShown

----------------------------------------------------------------------------
(* Event handlers *)

\* the timer of init(): createWelcomeNode
WelcomeTimer ==
    /\ welcomePending
    /\ welcomePending' = FALSE
    /\ SetGraph(createNode(Graph, WelcomePoint, WelcomeText, DefaultColor,
                           DefaultTextColor, "circle"))
    /\ UNCHANGED <<selVars, toolVars, dragVars, viewVars, editVars, storeVars, fnVars>>

\* the toolbar's tool buttons
ToolButton(tool) ==
    /\ PointerFree
    /\ setTool(tool)
    /\ UNCHANGED <<graphVars, selVars, dragVars, viewVars, editVars, storeVars,
                   welcomePending, fnVars>>

\* a faulty handleCanvasClick: the new node is put at the screen point
CanvasClickUnscaled(p) ==
    /\ PointerFree
    /\ \/ /\ currentTool = "node"
          /\ nodeCounter < MaxNodes
          /\ nodeCounter + connectionCounter < MaxIds
          /\ SetGraph(createNode(Graph, [x |-> p.x - pan.x, y |-> p.y - pan.y],
                                 NewNodeText, DefaultColor, DefaultTextColor, "circle"))
          /\ UNCHANGED selVars
       \/ /\ currentTool = "select"
          /\ clearSelection
          /\ UNCHANGED graphVars
       \/ /\ currentTool = "connection"
          /\ UNCHANGED <<graphVars, selVars>>
    /\ UNCHANGED <<toolVars, dragVars, viewVars, editVars, storeVars,
                   welcomePending, fnVars>>

\* handleCanvasClick; a click on a node or a line never gets here
\* (handleNodeClick and handleConnectionClick stop its propagation)
CanvasClick(p) ==
    /\ PointerFree
    /\ \/ /\ currentTool = "node"
          /\ nodeCounter < MaxNodes
          /\ nodeCounter + connectionCounter < MaxIds
          /\ SetGraph(createNode(Graph, screenToModel(p, zoom, pan), NewNodeText,
                                 DefaultColor, DefaultTextColor, "circle"))
          /\ UNCHANGED selVars
       \/ /\ currentTool = "select"
          /\ clearSelection
          /\ UNCHANGED graphVars
       \/ /\ currentTool = "connection"
          /\ UNCHANGED <<graphVars, selVars>>
    /\ UNCHANGED <<toolVars, dragVars, viewVars, editVars, storeVars,
                   welcomePending, fnVars>>

\* a faulty handleNodeClick: a click on the start node completes as well
NodeClickCompletingOnStart(nodeId, ctrl) ==
    /\ PointerFree
    /\ nodeId \in nodeElems
    /\ \/ /\ currentTool = "connection"
          /\ ~isConnecting
          /\ startConnection(nodeId)
       \/ /\ currentTool = "connection"
          /\ isConnecting
          /\ completeConnection(nodeId)
       \/ /\ currentTool = "select"
          /\ IF ctrl THEN toggleNodeSelection(nodeId) ELSE selectNode(nodeId)
          /\ UNCHANGED <<graphVars, toolVars>>
       \/ /\ currentTool = "node"
          /\ UNCHANGED <<graphVars, selVars, toolVars>>
    /\ UNCHANGED <<dragVars, viewVars, editVars, storeVars, welcomePending, fnVars>>

\* handleNodeClick, from the listener renderNode put on the node's element
NodeClick(nodeId, ctrl) ==
    /\ PointerFree
    /\ nodeId \in nodeElems
    /\ \/ /\ currentTool = "connection"
          /\ ~isConnecting
          /\ startConnection(nodeId)
       \/ /\ currentTool = "connection"
          /\ isConnecting
          /\ connectionStart # nodeId
          /\ completeConnection(nodeId)
       \/ /\ currentTool = "connection"
          /\ isConnecting
          /\ connectionStart = nodeId
          /\ UNCHANGED <<graphVars, selVars, toolVars>>
       \/ /\ currentTool = "select"
          /\ IF ctrl THEN toggleNodeSelection(nodeId) ELSE selectNode(nodeId)
          /\ UNCHANGED <<graphVars, toolVars>>
       \/ /\ currentTool = "node"
          /\ UNCHANGED <<graphVars, selVars, toolVars>>
    /\ UNCHANGED <<dragVars, viewVars, editVars, storeVars, welcomePending, fnVars>>

\* handleConnectionClick
ConnectionClick(connectionId) ==
    /\ PointerFree
    /\ connectionId \in connElems
    /\ IF currentTool = "select"
       THEN selectConnection(connectionId)
       ELSE UNCHANGED selVars
    /\ UNCHANGED <<graphVars, toolVars, dragVars, viewVars, editVars, storeVars,
                   welcomePending, fnVars>>

\* moveNode on every id of ids: the nodes that exist get the position
moveNodes(ns, ids, x, y) ==
    [n \in DOMAIN ns |->
        IF n \in ids THEN [ns[n] EXCEPT !.x = x, !.y = y] ELSE ns[n]]

\* a faulty handleCanvasMouseDown: the node grabbed is always selected alone
MouseDownSelectingOnly(nodeId, p, ctrl) ==
    /\ PointerFree
    /\ nodeId \in nodeElems
    /\ IF currentTool = "select" /\ nodeId \in DOMAIN nodes /\ ~ctrl
       THEN /\ selectedNodes' = {nodeId} /\ selectedConnections' = {}
            /\ isDragging' = TRUE
            /\ dragOffset' = LET mouse == screenToModel(p, zoom, pan)
                             IN [x |-> mouse.x - nodes[nodeId].x,
                                 y |-> mouse.y - nodes[nodeId].y]
       ELSE UNCHANGED <<selVars, dragVars>>
    /\ UNCHANGED <<graphVars, toolVars, viewVars, editVars, storeVars,
                   welcomePending, fnVars>>

\* handleCanvasMouseDown with the pointer on the element of nodeId
MouseDown(nodeId, p, ctrl) ==
    /\ PointerFree
    /\ nodeId \in nodeElems
    /\ IF currentTool = "select" /\ nodeId \in DOMAIN nodes /\ ~ctrl
       THEN /\ IF nodeId \in selectedNodes
               THEN UNCHANGED selVars
               ELSE selectedNodes' = {nodeId} /\ selectedConnections' = {}
            /\ isDragging' = TRUE
            /\ dragOffset' = LET mouse == screenToModel(p, zoom, pan)
                             IN [x |-> mouse.x - nodes[nodeId].x,
                                 y |-> mouse.y - nodes[nodeId].y]
       ELSE UNCHANGED <<selVars, dragVars>>
    /\ UNCHANGED <<graphVars, toolVars, viewVars, editVars, storeVars,
                   welcomePending, fnVars>>

\* a faulty drag: the offset is added to the pointer's place
draggedAddingOffset(ns, ids, p, z, pn, offset) ==
    LET mouse == screenToModel(p, z, pn)
    IN moveNodes(ns, ids, mouse.x + offset.x, mouse.y + offset.y)

\* the nodes after handleCanvasMouseMove has dragged the selected ones
dragged(ns, ids, p, z, pn, offset) ==
    LET mouse == screenToModel(p, z, pn)
    IN moveNodes(ns, ids, mouse.x - offset.x, mouse.y - offset.y)

\* handleCanvasMouseMove: drags the selected nodes, draws the preview line
MouseMove(p) ==
    /\ PointerFree
    /\ IF isDragging /\ selectedNodes # {}
       THEN nodes' = dragged(nodes, selectedNodes, p, zoom, pan, dragOffset)
       ELSE UNCHANGED nodes
    /\ tempConnection' = IF isConnecting /\ connectionStart # Null
                            /\ connectionStart \in DOMAIN nodes
                         THEN TRUE
                         ELSE tempConnection
    /\ UNCHANGED <<connections, nodeCounter, connectionCounter, nodeElems, connElems,
                   selVars, currentTool, isConnecting, connectionStart, dragVars,
                   viewVars, editVars, storeVars, welcomePending, fnVars>>

\* handleCanvasMouseUp
\* a faulty handleCanvasMouseUp: the drag ends in the select tool only
MouseUpInSelectTool ==
    /\ PointerFree
    /\ isDragging' = (isDragging /\ currentTool # "select")
    /\ UNCHANGED <<graphVars, selVars, toolVars, dragOffset, viewVars, editVars,
                   storeVars, welcomePending, fnVars>>

MouseUp ==
    /\ PointerFree
    /\ isDragging' = FALSE
    /\ UNCHANGED <<graphVars, selVars, toolVars, dragOffset, viewVars, editVars,
                   storeVars, welcomePending, fnVars>>

\* a faulty deleteSelected: it also gives up the connection in progress
DoDeleteSelectedCancelling ==
    /\ SetGraph(deleteSelected(Graph, selectedNodes, selectedConnections))
    /\ clearSelection
    /\ isConnecting' = FALSE
    /\ connectionStart' = Null
    /\ UNCHANGED <<currentTool, tempConnection>>

\* deleteSelected, whole
DoDeleteSelected ==
    /\ SetGraph(deleteSelected(Graph, selectedNodes, selectedConnections))
    /\ clearSelection
    /\ UNCHANGED toolVars

\* a faulty handleKeyDown: Escape keeps the selection
KeyDownKeepingSelection(key, tag) ==
    /\ IF tag \in {"INPUT", "TEXTAREA"}
       THEN UNCHANGED <<graphVars, selVars, toolVars>>
       ELSE IF key \in {"Delete", "Backspace"}
       THEN DoDeleteSelected
       ELSE /\ key = "Escape"
            /\ setTool("select")
            /\ UNCHANGED <<graphVars, selVars>>
    /\ UNCHANGED <<dragVars, viewVars, editVars, storeVars, welcomePending, fnVars>>

\* a faulty handleKeyDown: Escape is handled in the text fields as well
KeyDownEscapeAnywhere(key, tag) ==
    /\ IF tag \in {"INPUT", "TEXTAREA"} /\ key # "Escape"
       THEN UNCHANGED <<graphVars, selVars, toolVars>>
       ELSE IF key \in {"Delete", "Backspace"}
       THEN DoDeleteSelected
       ELSE /\ key = "Escape"
            /\ clearSelection
            /\ setTool("select")
            /\ UNCHANGED graphVars
    /\ UNCHANGED <<dragVars, viewVars, editVars, storeVars, welcomePending, fnVars>>

\* handleKeyDown (Ctrl+S only opens the save dialog)
KeyDown(key, tag) ==
    /\ IF tag \in {"INPUT", "TEXTAREA"}
       THEN UNCHANGED <<graphVars, selVars, toolVars>>
       ELSE IF key \in {"Delete", "Backspace"}
       THEN DoDeleteSelected
       ELSE /\ key = "Escape"
            /\ clearSelection
            /\ setTool("select")
            /\ UNCHANGED graphVars
    /\ UNCHANGED <<dragVars, viewVars, editVars, storeVars, welcomePending, fnVars>>

\* #deleteBtn
DeleteButton ==
    /\ PointerFree
    /\ DoDeleteSelected
    /\ UNCHANGED <<dragVars, viewVars, editVars, storeVars, welcomePending, fnVars>>

\* #clearBtn: clearAll, ok is the user's answer to confirm()
ClearButton(ok) ==
    /\ PointerFree
    /\ IF ok
       THEN SetGraph(clearAll(Graph)) /\ clearSelection
       ELSE UNCHANGED <<graphVars, selVars>>
    /\ UNCHANGED <<toolVars, dragVars, viewVars, editVars, storeVars,
                   welcomePending, fnVars>>

----------------------------------------------------------------------------
(* Persistence *)

RECURSIVE EntriesFrom(_, _)
EntriesFrom(m, ids) ==
    IF ids = {} THEN <<>>
    ELSE LET k == CHOOSE k \in ids : \A j \in ids : k <= j
         IN <<(<<k, m[k]>>)>> \o EntriesFrom(m, ids \ {k})

\* Array.from(map.entries()): the [key, value] pairs, in insertion order
\* (ids are inserted in increasing order)
ToEntries(m) == EntriesFrom(m, DOMAIN m)

\* new Map(entries): a later pair of the same key wins
FromEntries(entries) ==
    LET keys == {entries[i][1] : i \in DOMAIN entries}
        last(k) == CHOOSE i \in DOMAIN entries :
                      /\ entries[i][1] = k
                      /\ \A j \in DOMAIN entries : entries[j][1] = k => j <= i
    IN [k \in keys |-> entries[last(k)][2]]

\* a faulty snapshot: the node counter is taken to be the number of nodes
SnapshotCountingNodes(g) ==
    [nodes |-> ToEntries(g.nodes), connections |-> ToEntries(g.connections),
     nodeCounter |-> Cardinality(DOMAIN g.nodes),
     connectionCounter |-> g.connectionCounter]

\* the record saveMindMap stores (title and savedAt left out)
Snapshot(g) ==
    [nodes |-> ToEntries(g.nodes), connections |-> ToEntries(g.connections),
     nodeCounter |-> g.nodeCounter, connectionCounter |-> g.connectionCounter]

\* a faulty saveMindMap: the title is not checked
SaveUnchecked(input) ==
    LET fileName == Trim(input)
    IN /\ savedMaps' = MapSet(savedMaps, fileName, Snapshot(Graph))
       /\ savedGraph' = MapSet(savedGraph, fileName,
                               [nodes |-> nodes, connections |-> connections,
                                nodeCounter |-> nodeCounter,
                                connectionCounter |-> connectionCounter])
       /\ UNCHANGED <<graphVars, selVars, toolVars, dragVars, viewVars, editVars,
                      welcomePending, fnVars>>

\* saveMindMap, with #saveFileName holding input
Save(input) ==
    LET fileName == Trim(input)
    IN /\ IF fileName = <<>>
          THEN UNCHANGED storeVars
          ELSE /\ savedMaps' = MapSet(savedMaps, fileName, Snapshot(Graph))
               /\ savedGraph' = MapSet(savedGraph, fileName,
                                       [nodes |-> nodes, connections |-> connections,
                                        nodeCounter |-> nodeCounter,
                                        connectionCounter |-> connectionCounter])
       /\ UNCHANGED <<graphVars, selVars, toolVars, dragVars, viewVars, editVars,
                      welcomePending, fnVars>>

\* a faulty load: the counters of the stored record are not restored
loadDataKeepingCounters(g, data) ==
    LET ns == FromEntries(data.nodes)
        cs == FromEntries(data.connections)
    IN [nodes |-> ns, connections |-> cs,
        nodeCounter |-> g.nodeCounter,
        connectionCounter |-> g.connectionCounter,
        nodeElems |-> g.nodeElems \cup DOMAIN ns,
        connElems |-> g.connElems \cup
            {c \in DOMAIN cs : cs[c].start \in DOMAIN ns /\ cs[c].end \in DOMAIN ns}]

\* the graph after loadMindMap found data: the layers keep what clearAll left
\* in them, and every loaded node and every loaded connection with both ends
\* is rendered
loadData(g, data) ==
    LET ns == FromEntries(data.nodes)
        cs == FromEntries(data.connections)
    IN [nodes |-> ns, connections |-> cs,
        nodeCounter |-> data.nodeCounter,
        connectionCounter |-> data.connectionCounter,
        nodeElems |-> g.nodeElems \cup DOMAIN ns,
        connElems |-> g.connElems \cup
            {c \in DOMAIN cs : cs[c].start \in DOMAIN ns /\ cs[c].end \in DOMAIN ns}]

\* loadMindMap: sel is the selected file (NoFile: none), ok the answer to the
\* confirm() of the clearAll it calls
Load(sel, ok) ==
    /\ PointerFree
    /\ IF sel = NoFile \/ sel \notin DOMAIN savedMaps
       THEN /\ UNCHANGED <<graphVars, selVars>>
       ELSE /\ SetGraph(loadData(IF ok THEN clearAll(Graph) ELSE Graph, savedMaps[sel]))
            /\ IF ok THEN clearSelection ELSE UNCHANGED selVars
    /\ UNCHANGED <<toolVars, dragVars, viewVars, editVars, storeVars,
                   welcomePending, fnVars>>

\* deleteSavedFile, from the trash button of a listed file; ok is the answer
\* to its confirm()
DeleteSavedFile(fileName, ok) ==
    /\ IF ok
       THEN /\ savedMaps' = MapDel(savedMaps, fileName)
            /\ savedGraph' = MapDel(savedGraph, fileName)
       ELSE UNCHANGED storeVars
    /\ UNCHANGED <<graphVars, selVars, toolVars, dragVars, viewVars, editVars,
                   welcomePending, fnVars>>

----------------------------------------------------------------------------
(* Editing *)

hideNodeModal ==
    /\ nodeModalShown' = FALSE
    /\ currentEditingNode' = Null
    /\ currentEditingNodes' = {}
    /\ openedAs' = "none"

\* editNode, from the dblclick listener of the node's element.  With several
\* nodes selected it is editMultipleNodes, which reads the first selected node
\* and throws, after setting currentEditingNodes, when that node is gone.
NodeDblClick(nodeId) ==
    /\ PointerFree
    /\ nodeId \in nodeElems
    /\ IF Cardinality(selectedNodes) > 1
       THEN /\ currentEditingNodes' = selectedNodes
            /\ \E first \in selectedNodes :
                  IF first \in DOMAIN nodes
                  THEN /\ selectedShape' = nodes[first].shape
                       /\ nodeModalShown' = TRUE
                       /\ openedAs' = "batch"
                  ELSE UNCHANGED <<selectedShape, nodeModalShown, openedAs>>
            /\ UNCHANGED currentEditingNode
       ELSE IF nodeId \in DOMAIN nodes
       THEN /\ currentEditingNode' = nodeId
            /\ selectedShape' = nodes[nodeId].shape
            /\ nodeModalShown' = TRUE
            /\ openedAs' = "single"
            /\ UNCHANGED currentEditingNodes
       ELSE UNCHANGED editVars
    /\ UNCHANGED <<graphVars, selVars, toolVars, dragVars, viewVars, storeVars,
                   welcomePending, fnVars>>

\* a click on a .shape-option of the dialog
ShapeOptionClick(shape) ==
    /\ nodeModalShown
    /\ selectedShape' = shape
    /\ UNCHANGED <<graphVars, selVars, toolVars, dragVars, viewVars, storeVars,
                   currentEditingNode, currentEditingNodes, nodeModalShown,
                   openedAs, welcomePending, fnVars>>

\* the node after saveNodeEdit's assignments
editedNode(node, newText, newColor, newTextColor, newShape) ==
    LET text == IF newText # <<>> THEN newText ELSE node.text
        shape == IF newShape # "" THEN newShape ELSE node.shape
    IN [node EXCEPT !.color = newColor, !.textColor = newTextColor,
                    !.shape = shape, !.text = text,
                    !.size = computeNodeSize(text, shape)]

\* a faulty batch edit: the shape changes and the size stays
batchEditedNodeStaleSize(node, newColor, newTextColor, newShape) ==
    LET shape == IF newShape # "" THEN newShape ELSE node.shape
    IN [node EXCEPT !.color = newColor, !.textColor = newTextColor,
                    !.shape = shape]

\* the node after saveMultipleNodeEdit's assignments
batchEditedNode(node, newColor, newTextColor, newShape) ==
    LET shape == IF newShape # "" THEN newShape ELSE node.shape
    IN [node EXCEPT !.color = newColor, !.textColor = newTextColor,
                    !.shape = shape,
                    !.size = computeNodeSize(node.text, shape)]

\* a faulty batch edit: every node of the map is edited
saveMultipleNodeEditAll(ns, ids, newColor, newTextColor, newShape) ==
    [n \in DOMAIN ns |-> batchEditedNode(ns[n], newColor, newTextColor, newShape)]

saveMultipleNodeEdit(ns, ids, newColor, newTextColor, newShape) ==
    [n \in DOMAIN ns |->
        IF n \in ids
        THEN batchEditedNode(ns[n], newColor, newTextColor, newShape)
        ELSE ns[n]]

\* a faulty saveNodeEdit: a node that is gone is put back with the dialog's
\* values
SaveEditRecreating(input, color, textColor) ==
    /\ nodeModalShown
    /\ IF Cardinality(currentEditingNodes) > 1
       THEN /\ nodes' = saveMultipleNodeEdit(nodes, currentEditingNodes, color,
                                             textColor, selectedShape)
            /\ hideNodeModal
       ELSE IF currentEditingNode = Null
       THEN UNCHANGED <<nodes, currentEditingNode, currentEditingNodes, nodeModalShown,
                        openedAs>>
       ELSE /\ nodes' = MapSet(nodes, currentEditingNode,
                               IF currentEditingNode \in DOMAIN nodes
                               THEN editedNode(nodes[currentEditingNode], Trim(input),
                                               color, textColor, selectedShape)
                               ELSE [x |-> 0, y |-> 0, text |-> Trim(input),
                                     color |-> color, textColor |-> textColor,
                                     shape |-> "circle",
                                     size |-> computeNodeSize(Trim(input), "circle")])
            /\ hideNodeModal
    /\ UNCHANGED <<connections, nodeCounter, connectionCounter, nodeElems, connElems,
                   selVars, toolVars, dragVars, viewVars, storeVars, selectedShape,
                   welcomePending, fnVars>>

\* #saveEdit: saveNodeEdit, with the dialog's fields holding input, color and
\* textColor
SaveEdit(input, color, textColor) ==
    /\ nodeModalShown
    /\ IF Cardinality(currentEditingNodes) > 1
       THEN /\ nodes' = saveMultipleNodeEdit(nodes, currentEditingNodes, color,
                                             textColor, selectedShape)
            /\ hideNodeModal
       ELSE IF currentEditingNode = Null \/ currentEditingNode \notin DOMAIN nodes
       THEN UNCHANGED <<nodes, currentEditingNode, currentEditingNodes, nodeModalShown,
                        openedAs>>
       ELSE /\ nodes' = MapSet(nodes, currentEditingNode,
                               editedNode(nodes[currentEditingNode], Trim(input), color,
                                          textColor, selectedShape))
            /\ hideNodeModal
    /\ UNCHANGED <<connections, nodeCounter, connectionCounter, nodeElems, connElems,
                   selVars, toolVars, dragVars, viewVars, storeVars, selectedShape,
                   welcomePending, fnVars>>

\* #closeModal and #cancelEdit
CancelEdit ==
    /\ nodeModalShown
    /\ hideNodeModal
    /\ UNCHANGED <<graphVars, selVars, toolVars, dragVars, viewVars, storeVars,
                   selectedShape, welcomePending, fnVars>>

\* a click on the dialog's backdrop only removes the class 'show'
BackdropClick ==
    /\ nodeModalShown
    /\ nodeModalShown' = FALSE
    /\ openedAs' = "none"
    /\ UNCHANGED <<graphVars, selVars, toolVars, dragVars, viewVars, storeVars,
                   currentEditingNode, currentEditingNodes, selectedShape,
                   welcomePending, fnVars>>

----------------------------------------------------------------------------
(* View transform *)

ZoomMin == ZoomUnit \div 10
ZoomMax == 3 * ZoomUnit

\* z * num / den, rounded to the nearest thousandth
Scale(z, num, den) == (2 * z * num + den) \div (2 * den)

zoomIn(z) == Min2(ZoomMax, Scale(z, 12, 10))
zoomOut(z) == Max2(ZoomMin, Scale(z, 10, 12))
\* a faulty wheel zoom: no lower limit
wheelZoomNoFloor(z, deltaY) ==
    LET scaled == IF deltaY > 0 THEN Scale(z, 9, 10) ELSE Scale(z, 11, 10)
    IN Min2(ZoomMax, scaled)

\* a faulty wheel zoom: the product is not clamped
wheelZoomUnclamped(z, deltaY) ==
    IF deltaY > 0 THEN Scale(z, 9, 10) ELSE Scale(z, 11, 10)

wheelZoom(z, deltaY) ==
    LET scaled == IF deltaY > 0 THEN Scale(z, 9, 10) ELSE Scale(z, 11, 10)
    IN Max2(ZoomMin, Min2(ZoomMax, scaled))

WheelDeltas == {-120, 0, 120}

ZoomInButton ==
    /\ zoom' = zoomIn(zoom)
    /\ UNCHANGED <<graphVars, selVars, toolVars, dragVars, pan, editVars, storeVars,
                   welcomePending, fnVars>>

ZoomOutButton ==
    /\ zoom' = zoomOut(zoom)
    /\ UNCHANGED <<graphVars, selVars, toolVars, dragVars, pan, editVars, storeVars,
                   welcomePending, fnVars>>

ResetZoomButton ==
    /\ zoom' = ZoomUnit
    /\ pan' = [x |-> 0, y |-> 0]
    /\ UNCHANGED <<graphVars, selVars, toolVars, dragVars, editVars, storeVars,
                   welcomePending, fnVars>>

\* handleCanvasWheel
Wheel(deltaY) ==
    /\ zoom' = wheelZoom(zoom, deltaY)
    /\ UNCHANGED <<graphVars, selVars, toolVars, dragVars, pan, editVars, storeVars,
                   welcomePending, fnVars>>

----------------------------------------------------------------------------
(* The layout functions applied to drawn inputs *)

SizeTexts == SeqsUpTo({"a", " "}, MaxSizeLen)
WrapTexts == SeqsUpTo({"a", "b", " "}, MaxWrapLen)
\* sizes handed to renderWrappedText, in tenths: 10, 20, 30, 60 and 84
WrapSizes == {100, 200, 300, 600, 840}

NoArgs == [fn |-> "none"]
NoOut == [done |-> FALSE]

ApplySize ==
    /\ fnArgs.fn = "size"
    /\ ~fnOut.done
    /\ fnOut' = [done |-> TRUE, size |-> computeNodeSize(fnArgs.text, fnArgs.shape)]
    /\ UNCHANGED <<graphVars, selVars, toolVars, dragVars, viewVars, editVars,
                   storeVars, welcomePending, fnArgs>>

ApplyWrap ==
    /\ fnArgs.fn = "wrap"
    /\ ~fnOut.done
    /\ fnOut' = [done |-> TRUE,
                 lines |-> renderWrappedText(fnArgs.text, fnArgs.size, fnArgs.shape)]
    /\ UNCHANGED <<graphVars, selVars, toolVars, dragVars, viewVars, editVars,
                   storeVars, welcomePending, fnArgs>>

----------------------------------------------------------------------------
(* Specifications *)

\* the state the constructor leaves
InitEditor ==
    /\ nodes = EmptyMap
    /\ connections = EmptyMap
    /\ selectedNodes = {}
    /\ selectedConnections = {}
    /\ currentTool = "select"
    /\ isConnecting = FALSE
    /\ connectionStart = Null
    /\ tempConnection = FALSE
    /\ isDragging = FALSE
    /\ dragOffset = [x |-> 0, y |-> 0]
    /\ nodeCounter = 0
    /\ connectionCounter = 0
    /\ zoom = ZoomUnit
    /\ pan = [x |-> 0, y |-> 0]
    /\ currentEditingNode = Null
    /\ currentEditingNodes = {}
    /\ selectedShape = ""
    /\ nodeModalShown = FALSE
    /\ openedAs = "none"
    /\ savedMaps = EmptyMap
    /\ savedGraph = EmptyMap
    /\ nodeElems = {}
    /\ connElems = {}
    /\ welcomePending = TRUE
    /\ lastOp = "init"

Init ==
    /\ InitEditor
    /\ fnArgs = NoArgs
    /\ fnOut = NoOut

Did(name) == lastOp' = name

\* the user's events come after the welcome node has appeared
Ready == ~welcomePending

\* the handler A ran and is recorded as name
On(A, name) == Ready /\ A /\ Did(name)

DeleteKey(key, tag) == tag = "BODY" /\ key \in {"Delete", "Backspace"}

\* the editor's pointer and keyboard events on the graph
EditorEvents ==
    \/ \E tool \in Tools : On(ToolButton(tool), "other")
    \/ \E p \in ScreenPoints : On(CanvasClick(p), "other")
    \/ \E n \in nodeElems, ctrl \in BOOLEAN : On(NodeClick(n, ctrl), "other")
    \/ \E c \in connElems : On(ConnectionClick(c), "other")
    \/ \E e \in KeyEvents :
          On(KeyDown(e[1], e[2]), IF DeleteKey(e[1], e[2]) THEN "delete" ELSE "other")
    \/ On(DeleteButton, "delete")
    \/ \E ok \in BOOLEAN : On(ClearButton(ok), "other")

Next ==
    \/ WelcomeTimer /\ Did("other")
    \/ EditorEvents

Spec == Init /\ [][Next]_vars

\* the titles a file item of the dialog may carry
Titles == {Trim(f) : f \in FileNames} \ {<<>>}

LoadFinds(sel) == sel # NoFile /\ sel \in DOMAIN savedMaps

\* graphs of at most MaxIds - 2 ids, which keeps the store's snapshots few
SmallGraph == nodeCounter + connectionCounter <= MaxIds - 2

\* the handler A ran on a small graph and left a small graph
OnSmall(A, name) == On(A, name) /\ SmallGraph'

\* editing and persistence
StoreEvents ==
    \/ \E tool \in Tools : OnSmall(ToolButton(tool), "other")
    \/ \E p \in ScreenPoints : OnSmall(CanvasClick(p), "other")
    \/ \E n \in nodeElems : OnSmall(NodeClick(n, FALSE), "other")
    \/ OnSmall(KeyDown("Delete", "BODY"), "delete")
    \/ \E ok \in BOOLEAN : OnSmall(ClearButton(ok), "other")
    \/ \E input \in FileNames : OnSmall(Save(input), "other")
    \/ \E sel \in Titles \cup {NoFile} :
          OnSmall(Load(sel, TRUE), IF LoadFinds(sel) THEN "load" ELSE "other")
    \/ \E t \in Titles, ok \in BOOLEAN : OnSmall(DeleteSavedFile(t, ok), "other")

NextStore ==
    \/ WelcomeTimer /\ Did("other")
    \/ StoreEvents

SpecStore == Init /\ [][NextStore]_vars

\* the colour pair the user leaves in #nodeColor and #textColor
EditColor == "#FF0000"
EditPalette == {<<EditColor, "#000000">>}

\* the shapes the user picks in the dialog
PickedShapes == {"circle", "square"}

\* graphs of at most MaxNodes - 1 nodes
FewNodes == nodeCounter <= MaxNodes - 1

\* the handler A ran and left few nodes
OnFew(A, name) == On(A, name) /\ FewNodes'

\* creating, selecting, editing and deleting nodes
EditEvents ==
    \/ \E tool \in {"select", "node"} : OnFew(ToolButton(tool), "other")
    \/ \E p \in ScreenPoints : OnFew(CanvasClick(p), "other")
    \/ \E n \in nodeElems, ctrl \in BOOLEAN : OnFew(NodeClick(n, ctrl), "other")
    \/ \E n \in nodeElems : OnFew(NodeDblClick(n), "other")
    \/ \E shape \in PickedShapes : OnFew(ShapeOptionClick(shape), "other")
    \/ \E input \in EditTexts, c \in EditPalette :
          OnFew(SaveEdit(input, c[1], c[2]),
                IF Cardinality(currentEditingNodes) > 1 THEN "batchEdit" ELSE "edit")
    \/ OnFew(CancelEdit, "other")
    \/ OnFew(BackdropClick, "other")
    \/ OnFew(KeyDown("Delete", "BODY"), "delete")

NextEdit ==
    \/ WelcomeTimer /\ Did("other")
    \/ EditEvents

SpecEdit == Init /\ [][NextEdit]_vars

\* zooming
ZoomEvents ==
    \/ On(ZoomInButton, "zoomIn")
    \/ On(ZoomOutButton, "zoomOut")
    \/ On(ResetZoomButton, "resetZoom")
    \/ \E deltaY \in WheelDeltas : On(Wheel(deltaY), "wheel")

NextZoom ==
    \/ WelcomeTimer /\ Did("other")
    \/ ZoomEvents

SpecZoom == Init /\ [][NextZoom]_vars

\* which case of saveMindMap, loadMindMap and clearAll an event is
SaveCase(input) == IF Trim(input) = <<>> THEN "saveEmpty" ELSE "save"
LoadCase(sel, ok) ==
    IF ~LoadFinds(sel) THEN "loadNothing" ELSE IF ok THEN "load" ELSE "loadDeclined"
ClearCase(ok) == IF ok THEN "clearAll" ELSE "clearDeclined"

\* editing, clearing and the store, with every answer the dialogs check
FileEvents ==
    \/ \E tool \in Tools : OnSmall(ToolButton(tool), "other")
    \/ \E p \in ScreenPoints : OnSmall(CanvasClick(p), "other")
    \/ \E n \in nodeElems : OnSmall(NodeClick(n, FALSE), "other")
    \/ \E c \in connElems : OnSmall(ConnectionClick(c), "other")
    \/ \E ok \in BOOLEAN : OnSmall(ClearButton(ok), ClearCase(ok))
    \/ \E input \in FileNames : OnSmall(Save(input), SaveCase(input))
    \/ \E sel \in Titles \cup {NoFile} : OnSmall(Load(sel, TRUE), LoadCase(sel, TRUE))
    \/ \E t \in Titles : OnSmall(DeleteSavedFile(t, TRUE), "other")

NextFiles ==
    \/ WelcomeTimer /\ Did("other")
    \/ FileEvents

SpecFiles == Init /\ [][NextFiles]_vars

\* zooming that ends in a run of wheel events with deltaY > 0: once the run has
\* begun, nothing else happens
ScrollDelta == 120

ScrollEvents ==
    \/ lastOp # "scrollDown" /\ On(ZoomInButton, "zoomIn")
    \/ lastOp # "scrollDown" /\ On(ZoomOutButton, "zoomOut")
    \/ lastOp # "scrollDown" /\ On(ResetZoomButton, "resetZoom")
    \/ \E deltaY \in WheelDeltas : lastOp # "scrollDown" /\ On(Wheel(deltaY), "wheel")
    \/ On(Wheel(ScrollDelta), "scrollDown")

NextScroll ==
    \/ WelcomeTimer /\ Did("other")
    \/ ScrollEvents

\* the run goes on: the next wheel event of it comes
SpecScroll ==
    Init /\ [][NextScroll]_vars /\ WF_vars(On(Wheel(ScrollDelta), "scrollDown"))

\* computeNodeSize on every text of SizeTexts and every shape
InitSize ==
    /\ InitEditor
    /\ fnArgs \in {[fn |-> "size", text |-> t, shape |-> s] : t \in SizeTexts, s \in Shapes}
    /\ fnOut = NoOut

NextSize == ApplySize /\ UNCHANGED lastOp

SpecSize == InitSize /\ [][NextSize]_vars

\* renderWrappedText on every text of WrapTexts, every size of WrapSizes and
\* every shape
InitWrap ==
    /\ InitEditor
    /\ fnArgs \in {[fn |-> "wrap", text |-> t, size |-> z, shape |-> s] :
                      t \in WrapTexts, z \in WrapSizes, s \in Shapes}
    /\ fnOut = NoOut

NextWrap == ApplyWrap /\ UNCHANGED lastOp

SpecWrap == InitWrap /\ [][NextWrap]_vars

\* persistence with loads whose clearing the user may decline
ReloadEvents ==
    \/ \E tool \in Tools : OnSmall(ToolButton(tool), "other")
    \/ \E p \in ScreenPoints : OnSmall(CanvasClick(p), "other")
    \/ \E n \in nodeElems : OnSmall(NodeClick(n, FALSE), "other")
    \/ OnSmall(KeyDown("Delete", "BODY"), "delete")
    \/ OnSmall(ClearButton(TRUE), "other")
    \/ \E input \in FileNames : OnSmall(Save(input), "other")
    \/ \E sel \in Titles, ok \in BOOLEAN :
          OnSmall(Load(sel, ok), LoadCase(sel, ok))

NextReload ==
    \/ WelcomeTimer /\ Did("other")
    \/ ReloadEvents

SpecReload == Init /\ [][NextReload]_vars

\* which case of handleNodeClick a click on node n is
ClickKind(n, ctrl) ==
    IF currentTool = "connection"
    THEN IF ~isConnecting THEN "start"
         ELSE IF connectionStart # n THEN "complete"
         ELSE "selfClick"
    ELSE IF currentTool = "select"
    THEN IF ctrl THEN "toggle" ELSE "selectNode"
    ELSE "other"

\* the cases of handleNodeClick that matter to a connection in progress
ConnectKind(n, ctrl) ==
    IF ClickKind(n, ctrl) \in {"complete", "selfClick"}
    THEN ClickKind(n, ctrl)
    ELSE "other"

\* the zoom levels of the connecting scenarios: 1 and one wheel notch below
ZoomLevels == {ZoomUnit, Scale(ZoomUnit, 9, 10)}

\* the pointer of the connecting scenarios stays at the canvas corner, which
\* is the same place at every zoom
CornerPoints == {[x |-> 0, y |-> 0]}

\* graphs of at most MaxNodes - 1 nodes and MaxIds - 1 ids
LightGraph ==
    /\ nodeCounter <= MaxNodes - 1
    /\ nodeCounter + connectionCounter <= MaxIds - 1

\* the handler A ran and left a light graph and one of the zoom levels
OnNear(A, name) == On(A, name) /\ LightGraph' /\ zoom' \in ZoomLevels

\* the document saved in the connecting scenarios is the first one: the
\* welcome node and no connection yet
FirstDoc == DOMAIN nodes = {1} /\ nodeCounter = 1 /\ connectionCounter = 0

\* an event that comes while a connection is in progress
Aside(A) == isConnecting /\ OnNear(A, "other")

\* building a graph with the tools, and every other kind of event while a
\* connection is in progress
ConnectEvents ==
    \/ \E tool \in Tools : OnNear(ToolButton(tool), "setTool")
    \/ \E p \in CornerPoints : OnNear(CanvasClick(p), "other")
    \/ \E n \in nodeElems : OnNear(NodeClick(n, FALSE), ConnectKind(n, FALSE))
    \/ \E c \in connElems : OnNear(ConnectionClick(c), "other")
    \/ OnNear(KeyDown("Delete", "BODY"), "other")
    \/ OnNear(KeyDown("Escape", "BODY"), "escape")
    \/ OnNear(ClearButton(TRUE), "other")
    \/ \E n \in nodeElems, p \in CornerPoints : Aside(MouseDown(n, p, FALSE))
    \/ \E p \in CornerPoints : Aside(MouseMove(p))
    \/ Aside(MouseUp)
    \/ Aside(Wheel(120))
    \/ Aside(ResetZoomButton)
    \/ \E t \in Titles : FirstDoc /\ Aside(Save(t))
    \/ \E sel \in Titles : Aside(Load(sel, TRUE))
    \/ \E n \in nodeElems : Aside(NodeDblClick(n))
    \/ Aside(SaveEdit(<<" ">>, DefaultColor, DefaultTextColor))
    \/ Aside(CancelEdit)

NextConnect ==
    \/ WelcomeTimer /\ Did("other")
    \/ ConnectEvents

SpecConnect == Init /\ [][NextConnect]_vars

\* selecting with plain and Ctrl clicks, in every tool
SelectKind(n, ctrl) ==
    IF ClickKind(n, ctrl) \in {"selectNode", "start"} THEN "selectNode"
    ELSE IF ClickKind(n, ctrl) = "toggle" THEN "toggle" ELSE "other"

\* graphs with a connection less than the most
OneLess == connectionCounter <= MaxConns - 1

OnOneLess(A, name) == On(A, name) /\ OneLess'

SelectEvents ==
    \/ \E tool \in Tools : OnOneLess(ToolButton(tool), "other")
    \/ \E p \in CornerPoints : OnOneLess(CanvasClick(p), "other")
    \/ \E n \in nodeElems, ctrl \in BOOLEAN : OnOneLess(NodeClick(n, ctrl), SelectKind(n, ctrl))
    \/ \E c \in connElems :
          OnOneLess(ConnectionClick(c),
             IF currentTool = "select" THEN "selectConnection" ELSE "other")
    \/ \E n \in nodeElems, p \in CornerPoints :
          OnOneLess(MouseDown(n, p, FALSE), "other")
    \/ OnOneLess(MouseUp, "other")
    \/ OnOneLess(KeyDown("Delete", "BODY"), "other")

NextSelect ==
    \/ WelcomeTimer /\ Did("other")
    \/ SelectEvents

SpecSelect == Init /\ [][NextSelect]_vars

\* two places of the pointer, relative to the canvas
DragPoints == {[x |-> 100, y |-> 100], [x |-> 500, y |-> 400]}

\* the handler A ran and left every node within the rectangle that the two
\* places span, and two of the ids unused
OnStage(A, name) ==
    /\ On(A, name)
    /\ nodeCounter' + connectionCounter' <= MaxIds - 2
    /\ \A n \in DOMAIN nodes' : \E p, q \in DragPoints :
          /\ p.x <= nodes'[n].x /\ nodes'[n].x <= q.x
          /\ p.y <= nodes'[n].y /\ nodes'[n].y <= q.y

\* creating, selecting and dragging nodes: "mouseDown" is a mousedown that
\* grabs a node, "drag" a mousemove that drags, "mouseUp" a mouseup
DragEvents ==
    \/ \E tool \in Tools : OnStage(ToolButton(tool), "other")
    \/ \E p \in ScreenPoints : OnStage(CanvasClick(p), "other")
    \/ \E n \in nodeElems : OnStage(NodeClick(n, FALSE), "other")
    \/ \E n \in nodeElems : currentTool = "select" /\ OnStage(NodeClick(n, TRUE), "other")
    \/ \E c \in connElems : OnStage(ConnectionClick(c), "other")
    \/ \E n \in nodeElems, p \in DragPoints :
          OnStage(MouseDown(n, p, FALSE),
                  IF currentTool = "select" /\ n \in DOMAIN nodes
                  THEN "mouseDown" ELSE "other")
    \/ \E n \in nodeElems, p \in ScreenPoints :
          ~isDragging /\ OnStage(MouseDown(n, p, TRUE), "other")
    \/ \E p \in DragPoints :
          OnStage(MouseMove(p),
                  IF isDragging /\ selectedNodes # {} THEN "drag" ELSE "other")
    \/ OnStage(MouseUp, "mouseUp")

NextDrag ==
    \/ WelcomeTimer /\ Did("other")
    \/ DragEvents

SpecDrag == Init /\ [][NextDrag]_vars

\* creating nodes at the zoom levels: "createNode" is a click on the canvas
\* in the add-node tool, "canvasClick" one in another tool, "typing" a key
\* pressed in a text field
CreateEvents ==
    \/ \E tool \in Tools : OnOneLess(ToolButton(tool), "other")
    \/ \E p \in ScreenPoints :
          OnOneLess(CanvasClick(p),
                    IF currentTool = "node" THEN "createNode" ELSE "canvasClick")
    \/ \E n \in nodeElems : OnOneLess(NodeClick(n, FALSE), "other")
    \/ \E c \in connElems : OnOneLess(ConnectionClick(c), "other")
    \/ \E deltaY \in WheelDeltas :
          OnOneLess(Wheel(deltaY), "other") /\ zoom' \in ZoomLevels
    \/ \E key \in {"Delete", "Backspace", "Escape"}, tag \in {"INPUT", "TEXTAREA"} :
          OnOneLess(KeyDown(key, tag), "typing")

NextCreate ==
    \/ WelcomeTimer /\ Did("other")
    \/ CreateEvents

SpecCreate == Init /\ [][NextCreate]_vars

\* what the user may type into #nodeText
DialogTexts == {<<" ">>, <<" ","H","i"," ">>}

\* the value of #nodeText at a click on #saveEdit: editMultipleNodes hides the
\* field until hideNodeModal shows it again, and a hidden field keeps the text
\* editNode put there
FieldOf(texts) ==
    IF currentEditingNodes = {} THEN texts
    ELSE IF currentEditingNode \in DOMAIN nodes THEN {nodes[currentEditingNode].text}
    ELSE {<<>>}

\* the dialog that #saveEdit closes: opened by editMultipleNodes or by editNode
SaveKind == IF openedAs = "batch" THEN "batchEdit" ELSE "edit"

\* creating and selecting nodes, and the edit dialog with its three ways out;
\* texts is what the user may leave in #nodeText
DialogEvents(texts) ==
    \/ \E tool \in {"select", "node"} : On(ToolButton(tool), "other")
    \/ \E p \in CornerPoints : On(CanvasClick(p), "other")
    \/ \E n \in nodeElems, ctrl \in BOOLEAN : On(NodeClick(n, ctrl), "other")
    \/ \E n \in nodeElems : On(NodeDblClick(n), "other")
    \/ \E shape \in PickedShapes : On(ShapeOptionClick(shape), "other")
    \/ \E input \in FieldOf(texts), c \in EditPalette :
          On(SaveEdit(input, c[1], c[2]), SaveKind)
    \/ On(CancelEdit, "other")
    \/ On(BackdropClick, "other")

NextDialog ==
    \/ WelcomeTimer /\ Did("other")
    \/ DialogEvents(DialogTexts)

SpecDialog == Init /\ [][NextDialog]_vars

\* the same with #nodeText left blank, as in a batch edit, where it is hidden
BlankTexts == {<<" ">>}

NextBatch ==
    \/ WelcomeTimer /\ Did("other")
    \/ DialogEvents(BlankTexts)

SpecBatch == Init /\ [][NextBatch]_vars

----------------------------------------------------------------------------
(* Properties *)

\* the model part of a graph
ModelOf(g) ==
    [nodes |-> g.nodes, connections |-> g.connections,
     nodeCounter |-> g.nodeCounter, connectionCounter |-> g.connectionCounter]

\* the words of a text: its maximal runs of characters other than spaces
Words(text) == SelectSeq(Split(text), LAMBDA w : w # <<>>)

\* lines.join(' ')
RECURSIVE JoinLines(_)
JoinLines(lines) ==
    IF lines = <<>> THEN <<>>
    ELSE IF Len(lines) = 1 THEN Head(lines)
    ELSE Head(lines) \o <<" ">> \o JoinLines(Tail(lines))

\* C1: every connection in `connections` has both its start and its end among
\* the keys of `nodes`.
ReferentialIntegrity ==
    \A c \in DOMAIN connections :
        /\ connections[c].start \in DOMAIN nodes
        /\ connections[c].end \in DOMAIN nodes

\* C2: a createConnection whose start or end id is not in the node set inserts
\* nothing: every connection a step inserts has both its ends in the node set.
NoInsertWithMissingEnd ==
    [][\A c \in DOMAIN connections' \ DOMAIN connections :
          /\ connections'[c].start \in DOMAIN nodes
          /\ connections'[c].end \in DOMAIN nodes]_vars

\* C3: deleteNode(id) removes exactly the node id and exactly the connections
\* whose start or end is id, leaves every other node and connection as it was,
\* and changes nothing when id is absent.  Stated of a deleteSelected that has
\* one node and no connection selected, which is one call deleteNode(id).
DeleteNodeExact ==
    [][(lastOp' = "delete" /\ selectedConnections = {}
            /\ Cardinality(selectedNodes) = 1) =>
        LET id == CHOOSE n \in selectedNodes : TRUE
        IN /\ DOMAIN nodes' = DOMAIN nodes \ {id}
           /\ \A n \in DOMAIN nodes' : nodes'[n] = nodes[n]
           /\ DOMAIN connections' =
                 {c \in DOMAIN connections :
                     connections[c].start # id /\ connections[c].end # id}
           /\ \A c \in DOMAIN connections' : connections'[c] = connections[c]
           /\ id \notin DOMAIN nodes =>
                 (nodes' = nodes /\ connections' = connections)]_vars

\* C4: the id createNode is about to assign is not a key of `nodes` and the id
\* createConnection is about to assign is not a key of `connections`, in every
\* reachable state and in the state a load of any stored file would leave,
\* whether its clearing is confirmed or declined.
FreshIds ==
    /\ nodeCounter + 1 \notin DOMAIN nodes
    /\ connectionCounter + 1 \notin DOMAIN connections
    /\ \A t \in DOMAIN savedMaps, ok \in BOOLEAN :
          LET g == loadData(IF ok THEN clearAll(Graph) ELSE Graph, savedMaps[t])
          IN /\ g.nodeCounter + 1 \notin DOMAIN g.nodes
             /\ g.connectionCounter + 1 \notin DOMAIN g.connections

\* a load has restored a graph whose first node had been deleted
FreshIdsWitness ==
    /\ lastOp = "load"
    /\ DOMAIN nodes = {2}
    /\ nodeCounter = 2

\* C5: a load of title T leaves `nodes`, `connections`, `nodeCounter` and
\* `connectionCounter` equal to their values when T was last saved: this holds
\* right after a load, and of the load of any stored title from any reachable
\* state, whether its clearing is confirmed or declined.
SaveLoadRoundTrip ==
    /\ lastOp = "load" => \E t \in DOMAIN savedGraph : ModelOf(Graph) = savedGraph[t]
    /\ \A t \in DOMAIN savedMaps, ok \in BOOLEAN :
          ModelOf(loadData(IF ok THEN clearAll(Graph) ELSE Graph, savedMaps[t]))
             = savedGraph[t]

\* a load has restored two nodes and the connection between them
SaveLoadWitness ==
    /\ lastOp = "load"
    /\ Cardinality(DOMAIN nodes) = 2
    /\ DOMAIN connections # {}

\* C6: 0.1 <= zoom <= 3.0 in every state reached by zoomIn, zoomOut, wheel
\* events and resetZoom from zoom = 1.
ZoomInRange == ZoomMin <= zoom /\ zoom <= ZoomMax

\* a wheel event has left the zoom at one of its limits
ZoomWitness == lastOp = "wheel" /\ zoom \in {ZoomMin, ZoomMax}

\* C7: every node's size is the size computed from its current text and shape,
\* and stays so through a save and a load.
SizeFromTextAndShape ==
    /\ \A n \in DOMAIN nodes :
          nodes[n].size = computeNodeSize(nodes[n].text, nodes[n].shape)
    /\ LET g == loadData(clearAll(Graph), Snapshot(Graph))
       IN \A n \in DOMAIN g.nodes :
             g.nodes[n].size = computeNodeSize(g.nodes[n].text, g.nodes[n].shape)

\* a batch edit has made the welcome node a square or a rectangle
SizeWitness ==
    /\ lastOp = "batchEdit"
    /\ \E n \in DOMAIN nodes :
          nodes[n].text = WelcomeText /\ nodes[n].shape # "circle"

\* C8: the computed size is max(60, 8*L + 4*W), times 1.4 for a circle, with W
\* the number of the text's whitespace-separated words and L the length of the
\* longest of them.
SizeByWhitespaceWords ==
    (fnOut.done /\ fnArgs.fn = "size") =>
        LET words == Words(fnArgs.text)
            base == Max2(60, 8 * MaxLenOf(words) + 4 * Len(words))
        IN fnOut.size = IF fnArgs.shape = "circle" THEN base * 14 ELSE base * 10

\* C9: the wrapped lines, rejoined with single spaces and split into words
\* again, are the words of the text, in order.
WrapKeepsWords ==
    (fnOut.done /\ fnArgs.fn = "wrap") =>
        Words(JoinLines(fnOut.lines)) = Words(fnArgs.text)

\* a text was wrapped into several lines, one of them a word longer than the
\* line
WrapWitness ==
    /\ fnOut.done
    /\ fnArgs.fn = "wrap"
    /\ Len(fnOut.lines) >= 2
    /\ \E i \in DOMAIN fnOut.lines :
          Len(fnOut.lines[i]) > maxCharsPerLine(fnArgs.size, fnArgs.shape)

\* C10: after deleteSelected `nodes` is the previous nodes less the selected
\* ids, `connections` is the previous connections less the selected ones and
\* less those incident to a selected node, what remains is unchanged and both
\* selection sets are empty.
DeleteSelectedExact ==
    [][lastOp' = "delete" =>
        /\ DOMAIN nodes' = DOMAIN nodes \ selectedNodes
        /\ \A n \in DOMAIN nodes' : nodes'[n] = nodes[n]
        /\ DOMAIN connections' =
              {c \in DOMAIN connections \ selectedConnections :
                  /\ connections[c].start \notin selectedNodes
                  /\ connections[c].end \notin selectedNodes}
        /\ \A c \in DOMAIN connections' : connections'[c] = connections[c]
        /\ selectedNodes' = {}
        /\ selectedConnections' = {}]_vars

\* a deletion has removed the third node and its connection and has left the
\* other two nodes and the connection between them
DeleteSelectedWitness ==
    /\ lastOp = "delete"
    /\ nodeCounter = 3
    /\ connectionCounter = 2
    /\ DOMAIN nodes = {1, 2}
    /\ DOMAIN connections = {1}

\* C11: no connection has its start equal to its end, in the editor and in
\* every stored document.
NoSelfLoop ==
    /\ \A c \in DOMAIN connections : connections[c].start # connections[c].end
    /\ \A t \in DOMAIN savedMaps :
          \A i \in DOMAIN savedMaps[t].connections :
             savedMaps[t].connections[i][2].start # savedMaps[t].connections[i][2].end

\* a document with a connection was loaded and a new connection is in progress
NoSelfLoopWitness ==
    /\ lastOp = "other"
    /\ savedMaps # EmptyMap
    /\ DOMAIN connections # {}
    /\ isConnecting
    /\ connectionStart \in DOMAIN nodes

\* C12: while connecting from A, a click on a node B other than A adds exactly
\* the connection `connection_<counter+1>` from A to B, leaves the other
\* connections and the nodes as they were, and leaves isConnecting false,
\* connectionStart null and no preview.
CompleteAddsOne ==
    [][lastOp' = "complete" =>
        \E B \in nodeElems \ {connectionStart} :
           /\ NodeClick(B, FALSE)
           /\ connectionStart # Null
           /\ connectionCounter + 1 \notin DOMAIN connections
           /\ DOMAIN connections' = DOMAIN connections \cup {connectionCounter + 1}
           /\ connections'[connectionCounter + 1] = [start |-> connectionStart, end |-> B]
           /\ \A c \in DOMAIN connections : connections'[c] = connections[c]
           /\ connectionCounter' = connectionCounter + 1
           /\ nodes' = nodes
           /\ ~isConnecting'
           /\ connectionStart' = Null
           /\ ~tempConnection']_vars

\* a completing click has added a second connection
CompleteWitness ==
    /\ lastOp = "complete"
    /\ Cardinality(DOMAIN connections) = 2
    /\ ~isConnecting

\* C13: while connecting from A, a click on A changes nothing.
SelfClickNoOp ==
    [][lastOp' = "selfClick" =>
        UNCHANGED <<graphVars, selVars, toolVars, dragVars, viewVars, editVars,
                    storeVars, welcomePending, fnVars>>]_vars

\* the start node was clicked again, with the preview drawn, and the
\* connection is still in progress
SelfClickWitness ==
    /\ lastOp = "selfClick"
    /\ isConnecting
    /\ tempConnection
    /\ connectionStart \in selectedNodes

\* C14: after setTool, from the toolbar or from Escape, isConnecting is false,
\* connectionStart is null, there is no preview and nodes and connections are
\* as before; the toolbar's setTool leaves the selection as it was.
SetToolResets ==
    [][/\ lastOp' \in {"setTool", "escape"} =>
            /\ ~isConnecting'
            /\ connectionStart' = Null
            /\ ~tempConnection'
            /\ nodes' = nodes
            /\ connections' = connections
       /\ lastOp' = "setTool" => UNCHANGED selVars]_vars

\* the connection tool was chosen again while a connection was in progress:
\* its start node is still selected
SetToolWitness ==
    /\ lastOp = "setTool"
    /\ currentTool = "connection"
    /\ selectedNodes # {}
    /\ ~isConnecting

\* C15: isConnecting turns false only by setTool (toolbar or Escape) or by a
\* completing click on another node.
ConnectingUntilCancelled ==
    [][(isConnecting /\ ~isConnecting') =>
          lastOp' \in {"setTool", "escape", "complete"}]_vars

\* a save, a wheel event and a mouse move came and the connection is still in
\* progress
ConnectingWitness ==
    /\ isConnecting
    /\ lastOp = "other"
    /\ savedMaps # EmptyMap
    /\ zoom # ZoomUnit
    /\ tempConnection

\* C16: after Escape outside a text input both selection sets are empty, the
\* tool is select, isConnecting is false, connectionStart is null, and nodes
\* and connections are as before.
EscapeResets ==
    [][lastOp' = "escape" =>
        /\ selectedNodes' = {}
        /\ selectedConnections' = {}
        /\ currentTool' = "select"
        /\ ~isConnecting'
        /\ connectionStart' = Null
        /\ nodes' = nodes
        /\ connections' = connections]_vars

\* Escape was pressed on a zoomed graph that has a connection
EscapeWitness ==
    /\ lastOp = "escape"
    /\ DOMAIN connections # {}
    /\ zoom # ZoomUnit

\* C17: after selectNode(id), by a plain click in the select tool or by the
\* start of a connection, selectedNodes = {id} and selectedConnections is
\* empty; after selectConnection(id) selectedConnections = {id} and
\* selectedNodes is empty; whatever was selected before.
SelectOnly ==
    [][/\ lastOp' = "selectNode" =>
            \E id \in nodeElems :
               /\ NodeClick(id, FALSE)
               /\ selectedNodes' = {id}
               /\ selectedConnections' = {}
       /\ lastOp' = "selectConnection" =>
            \E id \in connElems :
               /\ ConnectionClick(id)
               /\ selectedConnections' = {id}
               /\ selectedNodes' = {}]_vars

\* a plain click in the select tool has selected one of three nodes of a graph
\* that has a connection
SelectOnlyWitness ==
    /\ lastOp = "selectNode"
    /\ currentTool = "select"
    /\ Cardinality(DOMAIN nodes) = 3
    /\ DOMAIN connections # {}
    /\ Cardinality(selectedNodes) = 1

\* C18: a Ctrl+click on node N in the select tool removes N from selectedNodes
\* when it was there and adds it otherwise, leaves every other id's membership
\* as it was, and a second toggle of N gives the first selectedNodes back.
ToggleOnly ==
    [][lastOp' = "toggle" =>
        \E N \in nodeElems :
           /\ NodeClick(N, TRUE)
           /\ (N \in selectedNodes') <=> (N \notin selectedNodes)
           /\ \A id \in (selectedNodes \cup selectedNodes') \ {N} :
                 (id \in selectedNodes') <=> (id \in selectedNodes)
           /\ toggled(selectedNodes', N) = selectedNodes]_vars

\* a Ctrl+click has left two of three nodes selected
ToggleWitness ==
    /\ lastOp = "toggle"
    /\ Cardinality(DOMAIN nodes) = 3
    /\ Cardinality(selectedNodes) = 2

\* C19: saving a batch edit, opened with more than one node selected, gives
\* every node that was selected the dialog's color, text color and shape, keeps
\* its text and position, computes its size from its own text and the new
\* shape, and changes no other node.
BatchEditApplies ==
    [][lastOp' = "batchEdit" =>
        \E c \in EditPalette :
           /\ currentEditingNodes = selectedNodes
           /\ Cardinality(currentEditingNodes) > 1
           /\ DOMAIN nodes' = DOMAIN nodes
           /\ \A n \in DOMAIN nodes :
                 IF n \in currentEditingNodes
                 THEN /\ nodes'[n].color = c[1]
                      /\ nodes'[n].textColor = c[2]
                      /\ nodes'[n].shape = selectedShape
                      /\ nodes'[n].text = nodes[n].text
                      /\ nodes'[n].x = nodes[n].x
                      /\ nodes'[n].y = nodes[n].y
                      /\ nodes'[n].size = computeNodeSize(nodes[n].text, selectedShape)
                 ELSE nodes'[n] = nodes[n]]_vars

\* a batch edit has made two nodes of different texts squares, each of its own
\* size, and has left the third node as it was created
BatchEditWitness ==
    /\ lastOp = "batchEdit"
    /\ \E a, b, c \in DOMAIN nodes :
          /\ nodes[a].shape = "square" /\ nodes[b].shape = "square"
          /\ nodes[a].color = EditColor /\ nodes[b].color = EditColor
          /\ nodes[a].text # nodes[b].text
          /\ nodes[a].size # nodes[b].size
          /\ nodes[c].shape = "circle"
          /\ nodes[c].color = DefaultColor

\* C20: saving the edit of a single node with input t makes the node's text the
\* trimmed t when that is not empty and keeps the text otherwise; color, text
\* color and shape become the dialog's values and the size is computed from
\* the resulting text and shape.
SingleEditApplies ==
    [][(lastOp' = "edit" /\ currentEditingNode \in DOMAIN nodes) =>
        \E input \in FieldOf(DialogTexts), c \in EditPalette :
           /\ SaveEdit(input, c[1], c[2])
           /\ LET N == currentEditingNode
                  text == IF Trim(input) # <<>> THEN Trim(input) ELSE nodes[N].text
              IN /\ nodes'[N].text = text
                 /\ nodes'[N].color = c[1]
                 /\ nodes'[N].textColor = c[2]
                 /\ nodes'[N].shape = selectedShape
                 /\ nodes'[N].size = computeNodeSize(text, selectedShape)]_vars

\* C21: a wheel event with deltaY > 0 multiplies zoom by 0.9 and one with
\* deltaY < 0 by 1.1, clamped to [0.1, 3.0]; a run of wheel events with
\* deltaY > 0 makes zoom strictly smaller at each event until it is 0.1, gets
\* there after finitely many events, and then stays there.
ScrollDownClamps ==
    /\ [][\A deltaY \in WheelDeltas :
            (lastOp' \in {"wheel", "scrollDown"} /\ Wheel(deltaY)) =>
               /\ deltaY > 0 =>
                    /\ zoom' = Max2(ZoomMin, Scale(zoom, 9, 10))
                    /\ zoom > ZoomMin => zoom' < zoom
                    /\ zoom = ZoomMin => zoom' = ZoomMin
               /\ deltaY < 0 => zoom' = Min2(ZoomMax, Scale(zoom, 11, 10))]_vars
    /\ (lastOp = "scrollDown") ~> (zoom = ZoomMin)
    /\ [][(lastOp = "scrollDown" /\ zoom = ZoomMin) => zoom' = ZoomMin]_vars

\* a run of down-scrolls has brought the zoom to 0.1
ScrollDownWitness ==
    /\ lastOp = "scrollDown"
    /\ zoom = ZoomMin

\* C22: after a confirmed clearAll nodes and connections are empty, both
\* selection sets are empty and both counters are 0.
ClearAllEmpties ==
    [][lastOp' = "clearAll" =>
        /\ nodes' = EmptyMap
        /\ connections' = EmptyMap
        /\ selectedNodes' = {}
        /\ selectedConnections' = {}
        /\ nodeCounter' = 0
        /\ connectionCounter' = 0]_vars

\* a map with a stored copy was cleared while a connection was in progress
ClearAllWitness ==
    /\ lastOp = "clearAll"
    /\ savedMaps # EmptyMap
    /\ isConnecting
    /\ nodeCounter = 0

\* C23: a save whose title is empty after trimming leaves the store as it was;
\* a load with no file selected, or with a title the store does not have,
\* leaves nodes, connections, both counters and the selection as they were.
RejectedSaveLoad ==
    [][/\ lastOp' = "saveEmpty" => savedMaps' = savedMaps
       /\ lastOp' = "loadNothing" =>
            /\ nodes' = nodes
            /\ connections' = connections
            /\ nodeCounter' = nodeCounter
            /\ connectionCounter' = connectionCounter
            /\ UNCHANGED selVars]_vars

\* a load found no file to load, with a connection on the canvas and a
\* selection
RejectedLoadWitness ==
    /\ lastOp = "loadNothing"
    /\ DOMAIN connections # {}
    /\ selectedNodes \cup selectedConnections # {}

\* C24: in the select tool a mousedown without Ctrl or Meta on an existing
\* node N leaves isDragging true and N selected: a selection that had N is
\* kept as it was, any other becomes {N} with no connection selected; and
\* dragOffset is screenToModel(mouse) minus N's position.
MouseDownGrabs ==
    [][\A N \in nodeElems, p \in DragPoints :
          (lastOp' = "mouseDown" /\ MouseDown(N, p, FALSE)
             /\ currentTool = "select" /\ N \in DOMAIN nodes) =>
             /\ isDragging'
             /\ N \in selectedNodes'
             /\ N \in selectedNodes => UNCHANGED selVars
             /\ N \notin selectedNodes =>
                   selectedNodes' = {N} /\ selectedConnections' = {}
             /\ dragOffset' = [x |-> screenToModel(p, zoom, pan).x - nodes[N].x,
                               y |-> screenToModel(p, zoom, pan).y - nodes[N].y]]_vars

\* a node of a selection of two was grabbed away from its centre
MouseDownWitness ==
    /\ lastOp = "mouseDown"
    /\ isDragging
    /\ Cardinality(selectedNodes) = 2
    /\ dragOffset # [x |-> 0, y |-> 0]

\* C25: while dragging with nodes selected, a mousemove at m puts every
\* selected node at screenToModel(m) - dragOffset and leaves the other nodes
\* where they are; a mousemove at the place of the mousedown, with the zoom
\* unchanged, leaves the grabbed node where it is.
DragMoves ==
    /\ [][\A m \in DragPoints :
            (lastOp' = "drag" /\ MouseMove(m)) =>
               /\ DOMAIN nodes' = DOMAIN nodes
               /\ \A n \in DOMAIN nodes :
                     IF n \in selectedNodes
                     THEN /\ nodes'[n].x = screenToModel(m, zoom, pan).x - dragOffset.x
                          /\ nodes'[n].y = screenToModel(m, zoom, pan).y - dragOffset.y
                     ELSE nodes'[n] = nodes[n]]_vars
    /\ [][\A N \in nodeElems, p \in DragPoints :
            (lastOp' = "mouseDown" /\ MouseDown(N, p, FALSE)
               /\ currentTool = "select" /\ N \in DOMAIN nodes) =>
               LET after == dragged(nodes', selectedNodes', p, zoom', pan', dragOffset')
               IN after[N].x = nodes[N].x /\ after[N].y = nodes[N].y]_vars

\* a drag has put two selected nodes at one place and left the third where
\* it was created
DragWitness ==
    /\ lastOp = "drag"
    /\ \E a, b, c \in DOMAIN nodes :
          /\ a # b
          /\ {a, b} \subseteq selectedNodes
          /\ c \notin selectedNodes
          /\ nodes[a].x = nodes[b].x /\ nodes[a].y = nodes[b].y
          /\ nodes[c].x # nodes[a].x

\* C26: a click on the canvas at p creates a node exactly when the tool is
\* the add-node tool; the one node created is node_<nodeCounter + 1>, with
\* the text "New Node", fill #4A90E2, text colour #FFFFFF, the circle shape
\* and the position p / zoom - pan, and the nodes there were, the
\* connections and the selection are unchanged.
CanvasClickCreates ==
    [][\A p \in ScreenPoints :
          (lastOp' \in {"createNode", "canvasClick"} /\ CanvasClick(p)) =>
             /\ (DOMAIN nodes' # DOMAIN nodes) <=> (currentTool = "node")
             /\ currentTool # "node" => nodes' = nodes
             /\ currentTool = "node" =>
                   LET id == nodeCounter + 1
                   IN /\ id \notin DOMAIN nodes
                      /\ DOMAIN nodes' = DOMAIN nodes \cup {id}
                      /\ nodeCounter' = id
                      /\ nodes'[id].text = <<"N", "e", "w", " ", "N", "o", "d", "e">>
                      /\ nodes'[id].color = "#4A90E2"
                      /\ nodes'[id].textColor = "#FFFFFF"
                      /\ nodes'[id].shape = "circle"
                      /\ nodes'[id].x = (p.x * ZoomUnit) \div zoom - pan.x
                      /\ nodes'[id].y = (p.y * ZoomUnit) \div zoom - pan.y
                      /\ \A n \in DOMAIN nodes : nodes'[n] = nodes[n]
                      /\ connections' = connections
                      /\ UNCHANGED selVars]_vars

\* a node was created at a zoom other than 1 while a connection was selected
CanvasClickWitness ==
    /\ lastOp = "createNode"
    /\ zoom # ZoomUnit
    /\ selectedConnections # {}
    /\ nodes[nodeCounter].x # 100

\* C27: when the dialog was opened on the single node N and is saved, the
\* dialog's color, text color and shape are applied to N and no other node
\* is modified, whatever edit sessions came before and however they were
\* dismissed.
SingleEditOnlyThatNode ==
    [][(lastOp' = "edit" /\ currentEditingNode \in DOMAIN nodes) =>
        \E input \in FieldOf(DialogTexts), c \in EditPalette :
           /\ SaveEdit(input, c[1], c[2])
           /\ LET N == currentEditingNode
              IN /\ nodes'[N].color = c[1]
                 /\ nodes'[N].textColor = c[2]
                 /\ nodes'[N].shape = selectedShape
                 /\ \A n \in DOMAIN nodes \ {N} : nodes'[n] = nodes[n]]_vars

DeclinedClearKeeps ==
    [][lastOp' \in {"clearDeclined", "loadDeclined"} =>
        UNCHANGED <<nodes, connections, nodeCounter, connectionCounter,
                    selectedNodes, selectedConnections>>]_vars


\* C30: every id in selectedNodes is a key of nodes and every id in
\* selectedConnections is a key of connections, after any sequence of
\* select, toggle, delete, clear all, load and connection operations.
SelectionExists ==
    /\ selectedNodes \subseteq DOMAIN nodes
    /\ selectedConnections \subseteq DOMAIN connections

\* C31: whenever isConnecting is true, connectionStart is the id of a node
\* that is in nodes.
PendingStartExists ==
    isConnecting => connectionStart \in DOMAIN nodes

\* C32: isConnecting is true exactly when connectionStart is not null, a
\* connection is in progress only in the connection tool, and there is a
\* preview line only while a connection is in progress.
ConnectingConsistent ==
    /\ isConnecting <=> connectionStart # Null
    /\ isConnecting => currentTool = "connection"
    /\ tempConnection => isConnecting

\* a second connection is in progress, with its preview line drawn
ConnectingConsistentWitness ==
    /\ isConnecting
    /\ tempConnection
    /\ DOMAIN connections # {}

\* C33: a mouseup on the canvas leaves isDragging false in every tool, and
\* from then until the next mousedown without modifier on a node in the
\* select tool no mousemove changes the position of a node: isDragging
\* becomes true at such a mousedown only, and while it is false a mousemove
\* leaves the nodes as they are.
MouseUpEndsDrag ==
    /\ [][lastOp' = "mouseUp" => ~isDragging']_vars
    /\ [][(~isDragging /\ isDragging') => lastOp' = "mouseDown"]_vars
    /\ [][\A m \in DragPoints : (~isDragging /\ MouseMove(m)) => nodes' = nodes]_vars

\* a drag was ended by a mouseup in the add-node tool, with nodes selected
MouseUpWitness ==
    /\ lastOp = "mouseUp"
    /\ ~isDragging
    /\ currentTool = "node"
    /\ selectedNodes # {}
    /\ dragOffset # [x |-> 0, y |-> 0]

\* C34: a Delete, Backspace or Escape key event whose target is an INPUT or
\* a TEXTAREA element changes nothing: nodes, connections, selection,
\* current tool and connection state are as before.
KeyInTextFieldIgnored ==
    [][\A key \in {"Delete", "Backspace", "Escape"}, tag \in {"INPUT", "TEXTAREA"} :
          (lastOp' = "typing" /\ KeyDown(key, tag)) =>
             UNCHANGED <<nodes, connections, selectedNodes, selectedConnections,
                         currentTool, isConnecting, connectionStart>>]_vars

\* a key was pressed in a text field while a connection was in progress, its
\* start node selected
KeyInTextFieldWitness ==
    /\ lastOp = "typing"
    /\ isConnecting
    /\ connectionStart \in selectedNodes
    /\ currentTool = "connection"

\* C35: every line of the wrapped text that holds more than one word has at
\* most maxCharsPerLine characters, and a line that is longer is exactly one
\* word of the text, in full.
WrapLinesFit ==
    (fnOut.done /\ fnArgs.fn = "wrap") =>
        LET limit == maxCharsPerLine(fnArgs.size, fnArgs.shape)
            words == Split(fnArgs.text)
        IN \A i \in DOMAIN fnOut.lines :
              LET line == fnOut.lines[i]
              IN /\ Len(Words(line)) > 1 => Len(line) <= limit
                 /\ Len(line) > limit =>
                       /\ \A k \in DOMAIN line : line[k] # " "
                       /\ \E j \in DOMAIN words : words[j] = line

\* a text of three words was wrapped into a line of two words that fills the
\* line and a line with the third word
WrapLinesWitness ==
    /\ fnOut.done
    /\ fnArgs.fn = "wrap"
    /\ Len(fnOut.lines) = 2
    /\ Len(Words(fnOut.lines[1])) = 2
    /\ Len(fnOut.lines[1]) = maxCharsPerLine(fnArgs.size, fnArgs.shape)

\* C36: saving a single or a batch edit adds and removes no node and no
\* connection and changes no node's id or position and neither counter; a
\* node that was deleted while the dialog was open is not created again.
EditKeepsGraph ==
    [][lastOp' \in {"edit", "batchEdit"} =>
        /\ DOMAIN nodes' = DOMAIN nodes
        /\ \A n \in DOMAIN nodes :
              nodes'[n].x = nodes[n].x /\ nodes'[n].y = nodes[n].y
        /\ UNCHANGED <<connections, nodeCounter, connectionCounter>>]_vars

\* the dialog's node was deleted while the dialog was open, and Save was
\* clicked
EditKeepsGraphWitness ==
    /\ lastOp = "edit"
    /\ nodeModalShown
    /\ currentEditingNode # Null
    /\ currentEditingNode \notin DOMAIN nodes

\* C37: whenever isDragging is true the current tool is the select tool.
DragOnlyInSelectTool ==
    isDragging => currentTool = "select"

====
